---- MODULE Spec2Model ----
(***************************************************************************)
(* State-machine model of the persistent multi-tenant WhatsApp gateway     *)
(* (src/unnamed/part_000): the session registry, the client lifecycle      *)
(* handlers, the per-session message queue with its batch drain, and the   *)
(* persisted-session file.                                                 *)
(*                                                                         *)
(* Node.js runs every handler to its first `await` without interruption,   *)
(* so one action is one handler (or one continuation of an async function) *)
(* run up to its next suspension point.                                    *)
(*                                                                         *)
(* The client library is known through its contract only: a client the     *)
(* session holds, or one it has destroyed and dropped, may emit any of its *)
(* events at any time, and sendMessage settles with success, a rate-limit  *)
(* error or another error.                                                 *)
(*                                                                         *)
(* The repository holds a second, simpler variant of the service,          *)
(* src/server.js, which the README documents: per-firm Maps instead of    *)
(* session objects, a queue drained message by message, and a cron job.   *)
(* Its state is the second group of variables and its behaviour is        *)
(* ServerSpec; the two variants share no state.                           *)
(*                                                                         *)
(* Time is counted in days.  The clock moves only in ReaperSpec; the other *)
(* specifications describe the service while no session is old enough to   *)
(* be evicted.                                                             *)
(***************************************************************************)
EXTENDS Naturals, Integers, Sequences, FiniteSets, TLC

\* ---------------------------------------------------------------- bounds
\* Tenants known to the model, and the ones that requests/events address.
Firms == {"f1", "f2"}
ActiveFirms == {"f1"}
\* Spec, the whole service: number of message ids the enqueue requests may
\* hand out, and the largest number of messages one request carries.
MaxMsgs == 1
MaxBulk == 1
\* initializeClient keeps counting past maxReconnectAttempts; Spec stops
\* calling it once the counter has reached this value.
MaxAttemptsSeen == 1
\* Reconnect timers of one session pending at once: a client emits
\* 'disconnected' only while fewer are pending (or the one it schedules is
\* pending already).
MaxPending == 1
\* QueueSpec, the dispatcher with the handlers that write what it reads.
QMaxMsgs == 3
QMaxBulk == 2
QMaxAttemptsSeen == 1
QMaxPending == 1
\* LifecycleSpec, the client lifecycle without the queue and the file.
LMaxAttemptsSeen == 7
LMaxPending == 2
\* BatchSpec, one ready session and its drains: message ids handed out.
BMaxMsgs == 7

\* ReaperSpec: the clock advances this many times, by one session timeout
\* each time.
MaxTicks == 4
RMaxAttemptsSeen == 1
RMaxPending == 1
\* IsolationSpec, both tenants driven.
IMaxMsgs == 1
IMaxBulk == 1
IMaxAttemptsSeen == 1
IMaxPending == 1
\* PhoneSpec: digits and separators a phone number is made of.
MaxDigits == 12
MaxSeparators == 1

\* ------------------------------------------------------ program constants
BATCH_SIZE == 5
maxReconnectAttempts == 5
\* SESSION_TIMEOUT = 30 * 24 * 60 * 60 * 1000 ms, in days
SESSION_TIMEOUT == 30

NoClient == "null"
TheClient == "client"
NoLink == "null"
Linked == "linked"

DisconnectReasons == {"LOGOUT", "NAVIGATION", "CONFLICT"}

VARIABLES
  sessions,      \* the Map sessionKey -> session object (function on the present keys)
  released,      \* released[f]: a client object destroyed and dropped by reset/disconnect
                 \*   still has its handlers bound to f's session object
  qrPending,     \* qrPending[f]: a QRCode.toDataURL callback is outstanding
  timers,        \* pending setTimeout callbacks that call initializeClient
  drains,        \* drains[f]: the suspended processMessageQueue invocations of f
  store,         \* firm ids present in persistent-sessions.json
  writes,        \* snapshots handed to fs.writeFile and not yet written
  nextId,        \* next message id (ids are handed out in enqueue order)
  firstAttempts, \* history: per firm, messages in the order of their first send attempt
  dropped,       \* history: messages whose send failed with a non rate-limit error
  linkHistory,   \* history: per firm, the last of created/restored/ready/unlinked/evicted
  now,           \* Date.now(), in days since the start of the process
  sweeps,        \* history: parity of the number of cleanup sweeps made
  phone,         \* PhoneSpec: the argument of formatPhoneNumber, character by character
  formatted,     \* PhoneSpec: <<>> or <<r>>, r the result of formatPhoneNumber(phone)
  emptiedAt,     \* history, kept in ClearSpec: emptiedAt[f] is the value of nextId when
                 \*   the queue of f was last emptied by clear-queue, reset or disconnect
                 \*   (1: never); the messages with smaller ids were enqueued before that
  \* ---- src/server.js
  clients,            \* the Map firmId -> client instance (NoClient: no entry)
  qrCodes,            \* qrCodes[f]: the Map holds a QR payload for f
  connectionStatuses, \* the Map firmId -> status ("undefined": no entry)
  messageQueues,      \* the array the Map firmId -> message queue holds (<<>>: none or empty)
  processingStates,   \* the Map firmId -> is processing (FALSE: no entry)
  renderings,         \* renderings[f]: a QRCode.toDataURL callback is outstanding
  reconnects,         \* reconnects[f]: pending 5 s timers of the 'disconnected' handler
  destroying,         \* destroying[f]: /api/disconnect requests awaiting client.destroy()
  runs,               \* runs[f]: the suspended processMessageQueue invocations of f
  queuedIds,          \* next message id of server.js (ids are handed out in enqueue order)
  sendAttempts,       \* history: message id -> number of send attempts made
  failedSends,        \* history: messages with a send attempt that failed
  manual              \* history: manual[f]: f was disconnected through /api/disconnect and
                      \*   no /api/connect or /api/qr request has arrived since

\* the state of src/server.js
serverVars == <<clients, qrCodes, connectionStatuses, messageQueues, processingStates,
                renderings, reconnects, destroying, runs, queuedIds, sendAttempts,
                failedSends, manual>>

\* the state of src/unnamed/part_000
serviceVars == <<sessions, released, qrPending, timers, drains, store, writes,
                 nextId, firstAttempts, dropped, linkHistory, now, sweeps, phone, formatted,
                 emptiedAt>>

vars == <<serviceVars, serverVars>>

\* ---------------------------------------------------------------- helpers
Min(a, b) == IF a < b THEN a ELSE b

Has(f) == f \in DOMAIN sessions

\* mutant of MapSet: every key ends up with the one object v
MapSetShared(m, k, v) == [x \in (DOMAIN m) \cup {k} |-> v]

\* sessions.set(key, value)
MapSet(m, k, v) == [x \in (DOMAIN m) \cup {k} |-> IF x = k THEN v ELSE m[x]]

\* messages of a sequence, as a set
Range(q) == {q[i] : i \in 1..Len(q)}

\* append to log the members of ms (a sequence) that it does not hold yet
RECURSIVE LogFirst(_, _)
LogFirst(log, ms) ==
  IF ms = <<>> THEN log
  ELSE LogFirst(IF Head(ms) \in Range(log) THEN log ELSE Append(log, Head(ms)), Tail(ms))

\* --------------------------------------------------------------- sessions
\* getOrCreateSession: the object literal of a first lookup
NewSession ==
  [client |-> NoClient, qrCode |-> FALSE, isReady |-> FALSE, status |-> "disconnected",
   messageQueue |-> <<>>, isProcessingQueue |-> FALSE, reconnectAttempts |-> 0,
   isPersistent |-> FALSE, lastLinked |-> NoLink, lastActivity |-> now, createdAt |-> now]

\* mutant of RestoredSession: a restored session starts like a new one,
\* not marked persistent
RestoredNotPersistent == [NewSession EXCEPT !.status = "restoring"]

\* loadPersistedSessions: the object literal of a restored session whose
\* record holds no createdAt
RestoredSession ==
  [client |-> NoClient, qrCode |-> FALSE, isReady |-> FALSE, status |-> "restoring",
   messageQueue |-> <<>>, isProcessingQueue |-> FALSE, reconnectAttempts |-> 0,
   isPersistent |-> TRUE, lastLinked |-> Linked, lastActivity |-> now, createdAt |-> now]

\* mutant of GetOrCreateSession: every call installs a new session object
GetOrCreateFresh(f) == MapSet(sessions, f, NewSession)

\* getOrCreateSession / getSession with a well-formed token of firm f:
\* the registry after the call
GetOrCreateSession(f) ==
  LET reg == IF Has(f) THEN sessions ELSE MapSet(sessions, f, NewSession)
  IN [reg EXCEPT ![f].lastActivity = now]

\* history kept beside getOrCreateSession: a first lookup starts a new history
Touched(f) == IF Has(f) THEN linkHistory ELSE [linkHistory EXCEPT ![f] = "created"]

\* savePersistedSessions up to its await: the snapshot it hands to writeFile
Snapshot(reg) == {f \in DOMAIN reg : reg[f].isPersistent /\ reg[f].lastLinked # NoLink}

\* ---------------------------------------------------------- initializeClient
\* mutant of InitializeClient: the call does not return early on a session
\* that holds a client
InitializeOverClient(s) ==
  LET s1 == [s EXCEPT !.status = "initializing",
                      !.reconnectAttempts = s.reconnectAttempts + 1]
  IN IF s1.reconnectAttempts > maxReconnectAttempts
     THEN [s1 EXCEPT !.status = "max_attempts_reached"]
     ELSE [s1 EXCEPT !.client = TheClient]

\* initializeClient(sessionKey) on a registered session s
InitializeClient(s) ==
  IF s.client # NoClient THEN s
  ELSE LET s1 == [s EXCEPT !.status = "initializing",
                           !.reconnectAttempts = s.reconnectAttempts + 1]
       IN IF s1.reconnectAttempts > maxReconnectAttempts
          THEN [s1 EXCEPT !.status = "max_attempts_reached"]
          ELSE [s1 EXCEPT !.client = TheClient]

\* the model's cap on the otherwise unbounded reconnectAttempts counter
MayInitialize(s, cap) == s.client # NoClient \/ s.reconnectAttempts < cap

\* -------------------------------------------------------- formatPhoneNumber
\* strings are sequences of one-character strings
DigitChars == {"0", "1", "2", "3", "4", "5", "6", "7", "8", "9"}

IsDigit(c) == c \in DigitChars

\* mutant of FormatPhoneNumber: the leading ten digits are kept
FormatKeepsLeading(phone_) ==
  LET digits == SelectSeq(phone_, IsDigit)
  IN IF Len(digits) = 12 /\ digits[1] = "9" /\ digits[2] = "1" THEN digits
     ELSE IF Len(digits) = 10 THEN <<"9", "1">> \o digits
     ELSE IF Len(digits) >= 10 THEN <<"9", "1">> \o SubSeq(digits, 1, 10)
     ELSE digits

\* formatPhoneNumber(phone)
FormatPhoneNumber(phone_) ==
  LET digits == SelectSeq(phone_, IsDigit)
  IN IF Len(digits) = 12 /\ digits[1] = "9" /\ digits[2] = "1" THEN digits
     ELSE IF Len(digits) = 10 THEN <<"9", "1">> \o digits
     ELSE IF Len(digits) >= 10
          THEN <<"9", "1">> \o SubSeq(digits, Len(digits) - 9, Len(digits))
     ELSE digits

\* ------------------------------------------------------ processMessageQueue
NoDrains == {}

\* The for loop of processMessageQueue from index i up to its next await
\* (or its end).  Result: the session, the suspended invocation if any, and
\* the messages the loop took from the queue on the way.
\* mutant of LoopContinues: the loop no longer looks at isReady
LoopContinuesUnchecked(s, i, batchSize) == i < batchSize

\* the condition of the for loop (line 134)
LoopContinues(s, i, batchSize) == i < batchSize /\ s.isReady

RECURSIVE RunLoop(_, _, _, _)
RunLoop(s, i, batchSize, taken) ==
  IF LoopContinues(s, i, batchSize)
  THEN IF s.messageQueue = <<>>
       \* shift() yields undefined; messageData.number throws in the try and
       \* again in the catch: the invocation dies with isProcessingQueue true
       THEN [s |-> s, d |-> NoDrains, taken |-> taken, failed |-> {}]
       ELSE LET m == Head(s.messageQueue)
                s1 == [s EXCEPT !.messageQueue = Tail(s.messageQueue)]
            IN IF s1.client = NoClient
               \* session.client.sendMessage throws a TypeError: caught, not a
               \* rate-limit message, the message is dropped and the loop goes on
               THEN LET r == RunLoop(s1, i + 1, batchSize, Append(taken, m))
                    IN [r EXCEPT !.failed = r.failed \cup {m}]
               ELSE [s |-> s1,
                     d |-> {[phase |-> "sending", msg |-> m, i |-> i, batchSize |-> batchSize]},
                     taken |-> Append(taken, m), failed |-> {}]
  ELSE [s |-> [s EXCEPT !.isProcessingQueue = FALSE], d |-> NoDrains,
        taken |-> taken, failed |-> {}]

\* mutant of DrainGuard: isProcessingQueue is not consulted
DrainGuardNoFlag(s) == s.messageQueue # <<>> /\ s.isReady

\* the guard of processMessageQueue (line 128), for a registered session
DrainGuard(s) == ~s.isProcessingQueue /\ s.messageQueue # <<>> /\ s.isReady

\* mutant of BatchSize: the whole queue is one batch
BatchSizeWholeQueue(s) == Len(s.messageQueue)

\* the batch size of one invocation
BatchSize(s) == Min(BATCH_SIZE, Len(s.messageQueue))

\* processMessageQueue(sessionKey) up to its first await
ProcessMessageQueue(s) ==
  IF DrainGuard(s)
  THEN RunLoop([s EXCEPT !.isProcessingQueue = TRUE], 0, BatchSize(s), <<>>)
  ELSE [s |-> s, d |-> NoDrains, taken |-> <<>>, failed |-> {}]


\* ------------------------------------------------------------------- Init
\* The state once app.listen's callback has awaited loadPersistedSessions:
\* every firm found in the file is registered with status `restoring' and a
\* 2 s timer that will call initializeClient for it.
\* pending setTimeout callbacks; delay in milliseconds
InitTimer(f) == [firm |-> f, kind |-> "init", delay |-> 2000]
ReconnectTimer(f, delay) == [firm |-> f, kind |-> "reconnect", delay |-> delay]

\* file: the firms of the persisted records, each with the age in days of
\* its createdAt
LoadPersistedSessions(file) ==
  [f \in DOMAIN file |-> [RestoredSession EXCEPT !.createdAt = now - file[f]]]

\* the persisted files a start may find: records of the firms in F, created
\* some number of days in ages ago
Files(F, ages) == UNION {[P -> ages] : P \in SUBSET F}

\* server.js after its module body has run: five empty Maps (lines 27-31)
ServerInit ==
  /\ clients = [f \in Firms |-> NoClient]
  /\ qrCodes = [f \in Firms |-> FALSE]
  /\ connectionStatuses = [f \in Firms |-> "undefined"]
  /\ messageQueues = [f \in Firms |-> <<>>]
  /\ processingStates = [f \in Firms |-> FALSE]
  /\ renderings = [f \in Firms |-> FALSE]
  /\ reconnects = [f \in Firms |-> 0]
  /\ destroying = [f \in Firms |-> 0]
  /\ runs = [f \in Firms |-> {}]
  /\ queuedIds = 1
  /\ sendAttempts = <<>>
  /\ failedSends = {}
  /\ manual = [f \in Firms |-> FALSE]

InitFrom(files) ==
  \E file \in files :
   LET persisted == DOMAIN file IN
    /\ ServerInit
    /\ emptiedAt = [f \in Firms |-> 1]
    /\ now = 0
    /\ sweeps = 0
    /\ phone = <<>>
    /\ formatted = <<>>
    /\ store = persisted
    /\ sessions = LoadPersistedSessions(file)
    /\ timers = {InitTimer(f) : f \in persisted}
    /\ linkHistory = [f \in Firms |-> IF f \in persisted THEN "restored" ELSE "none"]
    /\ released = [f \in Firms |-> FALSE]
    /\ qrPending = [f \in Firms |-> FALSE]
    /\ drains = [f \in Firms |-> NoDrains]
    /\ writes = {}
    /\ nextId = 1
    /\ firstAttempts = [f \in Firms |-> <<>>]
    /\ dropped = {}

Init == InitFrom(Files(ActiveFirms, {0}))

\* --------------------------------------------------------------- requests
\* GET /api/status/:sessionId and GET /api/queue/:sessionId: getSession only
GetSessionRequest(f) ==
  /\ sessions' = GetOrCreateSession(f)
  /\ linkHistory' = Touched(f)
  /\ UNCHANGED <<serverVars, emptiedAt, now, sweeps, phone, formatted, released, qrPending, timers, drains, store, writes,
                 nextId, firstAttempts, dropped>>

\* POST /api/qr/:sessionId
QrRequest(f, cap) ==
  LET reg == GetOrCreateSession(f)
      s == reg[f]
  IN /\ MayInitialize(s, cap)
     /\ sessions' = IF s.client = NoClient
                    THEN [reg EXCEPT ![f] = InitializeClient(s)]
                    ELSE reg
     /\ linkHistory' = Touched(f)
     /\ UNCHANGED <<serverVars, emptiedAt, now, sweeps, phone, formatted, released, qrPending, timers, drains, store, writes,
                    nextId, firstAttempts, dropped>>

\* the fields POST /api/reset clears (lines 444-447)
ResetFields(s) ==
  [s EXCEPT !.qrCode = FALSE, !.isReady = FALSE, !.status = "resetting",
            !.messageQueue = <<>>]

\* The three requests that empty the queue leave the history emptiedAt to
\* the specification: Recorded(f) where it is kept, Unrecorded elsewhere.
Recorded(f) == emptiedAt' = [emptiedAt EXCEPT ![f] = nextId]

Unrecorded == UNCHANGED emptiedAt

\* POST /api/reset/:sessionId; throws: client.destroy() throws synchronously
ResetRequest(f, throws) ==
  LET reg == GetOrCreateSession(f)
      s == ResetFields(reg[f])
      hadClient == s.client # NoClient
  IN /\ throws => hadClient
     /\ sessions' = [reg EXCEPT ![f] =
                       IF hadClient /\ ~throws THEN [s EXCEPT !.client = NoClient] ELSE s]
     /\ released' = IF hadClient /\ ~throws THEN [released EXCEPT ![f] = TRUE] ELSE released
     /\ timers' = timers \cup {InitTimer(f)}
     /\ linkHistory' = Touched(f)
     /\ UNCHANGED <<serverVars, now, sweeps, phone, formatted, qrPending, drains, store, writes, nextId, firstAttempts, dropped>>

\* the fields POST /api/disconnect clears (lines 481-486)
DisconnectFields(s) ==
  [s EXCEPT !.qrCode = FALSE, !.isReady = FALSE, !.status = "manually_disconnected",
            !.messageQueue = <<>>, !.isPersistent = FALSE, !.lastLinked = NoLink]

\* POST /api/disconnect/:sessionId; throws: logout() or destroy() throws synchronously
DisconnectRequest(f, throws) ==
  LET reg == GetOrCreateSession(f)
      s == DisconnectFields(reg[f])
      hadClient == s.client # NoClient
      reg1 == [reg EXCEPT ![f] =
                 IF hadClient /\ ~throws THEN [s EXCEPT !.client = NoClient] ELSE s]
  IN /\ throws => hadClient
     /\ sessions' = reg1
     /\ released' = IF hadClient /\ ~throws THEN [released EXCEPT ![f] = TRUE] ELSE released
     /\ writes' = writes \cup {Snapshot(reg1)}
     /\ linkHistory' = [linkHistory EXCEPT ![f] = "unlinked"]
     /\ UNCHANGED <<serverVars, now, sweeps, phone, formatted, qrPending, timers, drains, store, nextId, firstAttempts, dropped>>

\* POST /api/clear-queue/:sessionId
ClearQueueRequest(f) ==
  LET reg == GetOrCreateSession(f)
  IN /\ sessions' = [reg EXCEPT ![f].messageQueue = <<>>]
     /\ linkHistory' = Touched(f)
     /\ UNCHANGED <<serverVars, now, sweeps, phone, formatted, released, qrPending, timers, drains, store, writes,
                    nextId, firstAttempts, dropped>>

\* the ids of the n messages one request pushes
NewIds(n) == [k \in 1..n |-> nextId + k - 1]

\* mutant of Push: new messages go to the front of the queue
PushFront(s, ids) == [s EXCEPT !.messageQueue = ids \o s.messageQueue]

\* session.messageQueue.push(...) for each message of the request
Push(s, ids) == [s EXCEPT !.messageQueue = s.messageQueue \o ids]

\* mutant of EnqueueResponse: the request is accepted whatever the session
EnqueueAccepted(s) == [code |-> 200, status |-> "queued"]

\* the response of an enqueue request with a well-formed body (lines 526-532
\* and 563-568): 503 with the session's status unless isReady
EnqueueResponse(s) ==
  IF ~s.isReady THEN [code |-> 503, status |-> s.status]
  ELSE [code |-> 200, status |-> "queued"]

\* POST /api/send-bulk-messages, /api/send-event-messages, /api/send-task-messages
\* with n well-formed messages: 503 unless the session is ready, else push
\* the messages and call processMessageQueue
SendMessagesRequest(f, n, maxMsgs) ==
  LET reg == GetOrCreateSession(f)
      s == reg[f]
      r == ProcessMessageQueue(Push(s, NewIds(n)))
  IN /\ linkHistory' = Touched(f)
     /\ IF EnqueueResponse(s).code = 503
        THEN /\ sessions' = reg
             /\ UNCHANGED <<serverVars, emptiedAt, now, sweeps, phone, formatted, drains, nextId, firstAttempts, dropped>>
        ELSE /\ nextId + n - 1 <= maxMsgs
             /\ sessions' = [reg EXCEPT ![f] = r.s]
             /\ drains' = [drains EXCEPT ![f] = drains[f] \cup r.d]
             /\ nextId' = nextId + n
             /\ firstAttempts' = [firstAttempts EXCEPT ![f] = LogFirst(firstAttempts[f], r.taken)]
             /\ dropped' = dropped \cup r.failed
     /\ UNCHANGED <<serverVars, emptiedAt, now, sweeps, phone, formatted, released, qrPending, timers, store, writes>>


\* ----------------------------------------------------------- client events
\* The handlers registered in initializeClient close over the session object;
\* they stay registered on a client after the session has dropped it.
CanEmit(f) == Has(f) /\ (sessions[f].client # NoClient \/ released[f])

\* 'qr' handler up to the call of QRCode.toDataURL
OnQr(f) ==
  /\ CanEmit(f)
  /\ sessions' = [sessions EXCEPT ![f].status = "qr_ready"]
  /\ qrPending' = [qrPending EXCEPT ![f] = TRUE]
  /\ UNCHANGED <<serverVars, emptiedAt, now, sweeps, phone, formatted, released, timers, drains, store, writes, nextId,
                 firstAttempts, dropped, linkHistory>>

\* the callback of QRCode.toDataURL
QrRendered(f, ok) ==
  /\ Has(f) /\ qrPending[f]
  /\ sessions' = IF ok THEN [sessions EXCEPT ![f].qrCode = TRUE]
                 ELSE [sessions EXCEPT ![f].status = "qr_failed"]
  /\ qrPending' = [qrPending EXCEPT ![f] = FALSE]
  /\ UNCHANGED <<serverVars, emptiedAt, now, sweeps, phone, formatted, released, timers, drains, store, writes, nextId,
                 firstAttempts, dropped, linkHistory>>

\* the assignments of the 'ready' handler
ReadyFields(s) ==
  [s EXCEPT !.isReady = TRUE, !.status = "ready", !.qrCode = FALSE,
            !.reconnectAttempts = 0, !.isPersistent = TRUE, !.lastLinked = Linked]

\* 'ready' handler, with the call of savePersistedSessions up to its await
OnReady(f) ==
  LET reg == [sessions EXCEPT ![f] = ReadyFields(sessions[f])]
  IN /\ CanEmit(f)
     /\ sessions' = reg
     /\ writes' = writes \cup {Snapshot(reg)}
     /\ linkHistory' = [linkHistory EXCEPT ![f] = "ready"]
     /\ UNCHANGED <<serverVars, emptiedAt, now, sweeps, phone, formatted, released, qrPending, timers, drains, store, nextId,
                    firstAttempts, dropped>>

\* mutant of AuthenticatedFields: the session is marked linked as soon as
\* the client authenticates
AuthenticatedMarksPersistent(s) ==
  [s EXCEPT !.status = "authenticated", !.isPersistent = TRUE, !.lastLinked = Linked]

\* the assignments of the 'authenticated' handler
AuthenticatedFields(s) == [s EXCEPT !.status = "authenticated"]

\* 'authenticated' handler
OnAuthenticated(f) ==
  /\ CanEmit(f)
  /\ sessions' = [sessions EXCEPT ![f] = AuthenticatedFields(sessions[f])]
  /\ UNCHANGED <<serverVars, emptiedAt, now, sweeps, phone, formatted, released, qrPending, timers, drains, store, writes, nextId,
                 firstAttempts, dropped, linkHistory>>

\* mutant of OnAuthFailure: the handler schedules a reconnect as the
\* 'disconnected' handler does
OnAuthFailureReconnects(f) ==
  /\ CanEmit(f)
  /\ sessions' = [sessions EXCEPT ![f].status = "auth_failed", ![f].qrCode = FALSE]
  /\ timers' = timers \cup {ReconnectTimer(f, 5000)}
  /\ UNCHANGED <<serverVars, emptiedAt, now, sweeps, phone, formatted, released, qrPending, drains, store,
                 writes, nextId, firstAttempts, dropped, linkHistory>>

\* 'auth_failure' handler
OnAuthFailure(f) ==
  /\ CanEmit(f)
  /\ sessions' = [sessions EXCEPT ![f].status = "auth_failed", ![f].qrCode = FALSE]
  /\ UNCHANGED <<serverVars, emptiedAt, now, sweeps, phone, formatted, released, qrPending, timers, drains, store, writes, nextId,
                 firstAttempts, dropped, linkHistory>>

\* the assignments of the 'disconnected' handler (lines 260-262)
DisconnectedFields(s) ==
  [s EXCEPT !.isReady = FALSE, !.status = "disconnected", !.qrCode = FALSE]

\* mutant of SchedulesReconnect: the reason of the disconnect is not looked at
SchedulesReconnectAnyReason(s, reason) == TRUE

\* the handler's decision to call setTimeout (lines 265 and 275), on the
\* session as the assignments above left it
SchedulesReconnect(s, reason) ==
  IF s.isPersistent /\ s.status # "manually_disconnected"
  THEN TRUE
  ELSE ~s.isPersistent /\ reason # "NAVIGATION" /\ reason # "LOGOUT"

\* reconnectDelay in milliseconds (lines 266 and 277)
ReconnectDelay(s) ==
  IF s.isPersistent THEN Min(60000, 10000 * s.reconnectAttempts)
  ELSE Min(30000, 5000 * s.reconnectAttempts)

\* the reconnect timers of firm f that have not fired yet
PendingReconnects(f) == {t \in timers : t.kind = "reconnect" /\ t.firm = f}

\* 'disconnected' handler
OnDisconnected(f, reason, maxPending) ==
  LET s == DisconnectedFields(sessions[f])
      t == ReconnectTimer(f, ReconnectDelay(s))
  IN /\ CanEmit(f)
     /\ t \in timers \/ Cardinality(PendingReconnects(f)) < maxPending
     /\ sessions' = [sessions EXCEPT ![f] = s]
     /\ timers' = IF SchedulesReconnect(s, reason) THEN timers \cup {t} ELSE timers
     /\ UNCHANGED <<serverVars, emptiedAt, now, sweeps, phone, formatted, released, qrPending, drains, store, writes, nextId,
                    firstAttempts, dropped, linkHistory>>

\* ------------------------------------------------------------------ timers
\* the check a reconnect timer makes when it fires (lines 270 and 279)
ReconnectStillWanted(f) == Has(f) /\ sessions[f].status # "manually_disconnected"

\* a setTimeout callback fires: the 2 s timers of loadPersistedSessions and
\* of /api/reset call initializeClient unconditionally, the reconnect timers
\* of the 'disconnected' handler after the check above
TimerFires(t, cap) ==
  LET f == t.firm
      acts == IF t.kind = "reconnect" THEN ReconnectStillWanted(f) ELSE Has(f)
  IN /\ t \in timers
     /\ acts => MayInitialize(sessions[f], cap)
     /\ timers' = timers \ {t}
     /\ sessions' = IF acts THEN [sessions EXCEPT ![f] = InitializeClient(sessions[f])]
                    ELSE sessions
     /\ UNCHANGED <<serverVars, emptiedAt, now, sweeps, phone, formatted, released, qrPending, drains, store, writes, nextId,
                    firstAttempts, dropped, linkHistory>>

\* ------------------------------------------- continuations of a drain
\* the drain d of firm f moves on: its record is replaced by the records in ds
Resume(f, d, r) ==
  /\ sessions' = [sessions EXCEPT ![f] = r.s]
  /\ drains' = [drains EXCEPT ![f] = (drains[f] \ {d}) \cup r.d]
  /\ firstAttempts' = [firstAttempts EXCEPT ![f] = LogFirst(firstAttempts[f], r.taken)]
  /\ dropped' = dropped \cup r.failed
  /\ UNCHANGED <<serverVars, emptiedAt, now, sweeps, phone, formatted, released, qrPending, timers, store, writes, nextId, linkHistory>>

\* sendMessage resolves: the loop awaits the 3 s pacing delay
SendResolves(f, d) ==
  /\ Has(f) /\ d \in drains[f] /\ d.phase = "sending"
  /\ Resume(f, d, [s |-> sessions[f], d |-> {[d EXCEPT !.phase = "pacing"]},
                   taken |-> <<>>, failed |-> {}])

\* mutant of RequeueFront: the message is pushed to the back
RequeueBack(s, m) == [s EXCEPT !.messageQueue = Append(s.messageQueue, m)]

\* the catch block for a rate-limit error: unshift, then await the 10 s cooldown
RequeueFront(s, m) == [s EXCEPT !.messageQueue = <<m>> \o s.messageQueue]

\* mutant of DropAndContinue: the catch block leaves the loop as it does for
\* a rate-limit error
DropAndBreak(s, d) ==
  [s |-> [s EXCEPT !.isProcessingQueue = FALSE], d |-> NoDrains,
   taken |-> <<>>, failed |-> {d.msg}]

\* the catch block for any other error: nothing is put back, next index
DropAndContinue(s, d) ==
  LET r == RunLoop(s, d.i + 1, d.batchSize, <<>>)
  IN [r EXCEPT !.failed = r.failed \cup {d.msg}]

\* sendMessage rejects with a message containing 'rate' or 'limit'
SendRateLimited(f, d) ==
  /\ Has(f) /\ d \in drains[f] /\ d.phase = "sending"
  /\ Resume(f, d, [s |-> RequeueFront(sessions[f], d.msg),
                   d |-> {[d EXCEPT !.phase = "cooldown"]},
                   taken |-> <<>>, failed |-> {}])

\* sendMessage rejects with any other error: the message is gone and the
\* loop goes on with the next index
SendFails(f, d) ==
  /\ Has(f) /\ d \in drains[f] /\ d.phase = "sending"
  /\ Resume(f, d, DropAndContinue(sessions[f], d))

\* the 3 s pacing delay is over: next index
PacingElapsed(f, d) ==
  /\ Has(f) /\ d \in drains[f] /\ d.phase = "pacing"
  /\ Resume(f, d, RunLoop(sessions[f], d.i + 1, d.batchSize, <<>>))

\* the 10 s cooldown is over: break, isProcessingQueue = false
CooldownElapsed(f, d) ==
  /\ Has(f) /\ d \in drains[f] /\ d.phase = "cooldown"
  /\ Resume(f, d, [s |-> [sessions[f] EXCEPT !.isProcessingQueue = FALSE],
                   d |-> NoDrains, taken |-> <<>>, failed |-> {}])

\* --------------------------------------------------------------- intervals
\* the condition of the 45 s interval (line 907)
IntervalPicks(s) == s.messageQueue # <<>> /\ s.isReady /\ ~s.isProcessingQueue

\* setInterval(..., 45000): processMessageQueue for every session picked
QueueInterval ==
  LET run == [f \in DOMAIN sessions |->
                IF IntervalPicks(sessions[f]) THEN ProcessMessageQueue(sessions[f])
                ELSE [s |-> sessions[f], d |-> NoDrains, taken |-> <<>>, failed |-> {}]]
  IN /\ \E f \in DOMAIN sessions : IntervalPicks(sessions[f])
     /\ sessions' = [f \in DOMAIN sessions |-> run[f].s]
     /\ drains' = [f \in Firms |-> IF Has(f) THEN drains[f] \cup run[f].d ELSE drains[f]]
     /\ firstAttempts' = [f \in Firms |-> IF Has(f) THEN LogFirst(firstAttempts[f], run[f].taken)
                                          ELSE firstAttempts[f]]
     /\ dropped' = dropped \cup UNION {run[f].failed : f \in DOMAIN sessions}
     /\ UNCHANGED <<serverVars, emptiedAt, now, sweeps, phone, formatted, released, qrPending, timers, store, writes, nextId, linkHistory>>

\* setInterval(savePersistedSessions, 5 min) up to the await of writeFile
SaveInterval ==
  /\ Snapshot(sessions) \notin writes
  /\ writes' = writes \cup {Snapshot(sessions)}
  /\ UNCHANGED <<serverVars, emptiedAt, now, sweeps, phone, formatted, sessions, released, qrPending, timers, drains, store, nextId,
                 firstAttempts, dropped, linkHistory>>

\* an fs.writeFile completes: the file holds that snapshot
WriteCompletes(w) ==
  /\ w \in writes
  /\ store' = w
  /\ writes' = writes \ {w}
  /\ UNCHANGED <<serverVars, emptiedAt, now, sweeps, phone, formatted, sessions, released, qrPending, timers, drains, nextId,
                 firstAttempts, dropped, linkHistory>>

\* ------------------------------------------------------- clock and reaper
\* time passes: one session timeout at a time
Tick(maxTicks) ==
  /\ now < maxTicks * SESSION_TIMEOUT
  /\ now' = now + SESSION_TIMEOUT
  /\ UNCHANGED <<serverVars, emptiedAt, sweeps, phone, formatted, sessions, released, qrPending, timers, drains, store, writes,
                 nextId, firstAttempts, dropped, linkHistory>>

\* sessionHeartbeat, the 60 s interval
Heartbeat ==
  /\ sessions' = [f \in DOMAIN sessions |->
                    IF sessions[f].isReady /\ sessions[f].client # NoClient
                    THEN [sessions[f] EXCEPT !.lastActivity = now]
                    ELSE sessions[f]]
  /\ UNCHANGED <<serverVars, emptiedAt, now, sweeps, phone, formatted, released, qrPending, timers, drains, store, writes,
                 nextId, firstAttempts, dropped, linkHistory>>

\* mutant of IsOld: a session idle for exactly the timeout counts as old
IsOldInclusive(s) == now - s.lastActivity >= SESSION_TIMEOUT

\* cleanupOldSessions: isOld and isVeryStale (lines 294-295)
IsOld(s) == now - s.lastActivity > SESSION_TIMEOUT
IsVeryStale(s) == now - s.createdAt > SESSION_TIMEOUT * 3

\* mutant of Evicts: persistent sessions are swept like the others
EvictsIgnoringPersistence(s) == IsOld(s) \/ IsVeryStale(s)

\* cleanupOldSessions: the session is deleted (lines 298-299 and 309)
Evicts(s) ==
  IF s.isPersistent
  THEN IsVeryStale(s) /\ ~s.isReady /\ s.status = "disconnected"
  ELSE IsOld(s) \/ IsVeryStale(s)

\* A reconnect timer closes over the session object.  Once that object has
\* left the registry its status is what it was at the eviction: the timer
\* of an object evicted as manually_disconnected never acts, any other one
\* acts as soon as the tenant is registered again.
Orphaned(t, gone) ==
  IF t.kind = "reconnect" /\ t.firm \in gone
  THEN IF sessions[t.firm].status = "manually_disconnected" THEN {}
       ELSE {[t EXCEPT !.kind = "orphan"]}
  ELSE {t}

\* mutant of SweepSaves: the snapshot is taken before the evicted sessions
\* leave the registry
SweepSavesStale(gone, reg) ==
  IF gone # {} THEN writes \cup {Snapshot(sessions)} ELSE writes

\* the end of a sweep (lines 321-324): savePersistedSessions, up to its
\* await, if a session was evicted; reg is the registry after the sweep
SweepSaves(gone, reg) ==
  IF gone # {} THEN writes \cup {Snapshot(reg)} ELSE writes

\* cleanupOldSessions, the 10 min interval: one sweep over the registry.
\* The evicted object's client is destroyed; its pending callbacks and
\* drains go on with the evicted object, out of the registry's sight.
Cleanup ==
  LET gone == {f \in DOMAIN sessions : Evicts(sessions[f])}
      reg == [f \in DOMAIN sessions \ gone |-> sessions[f]]
  IN /\ sessions' = reg
     /\ released' = [f \in Firms |-> released[f] /\ f \notin gone]
     /\ qrPending' = [f \in Firms |-> qrPending[f] /\ f \notin gone]
     /\ drains' = [f \in Firms |-> IF f \in gone THEN NoDrains ELSE drains[f]]
     /\ timers' = UNION {Orphaned(t, gone) : t \in timers}
     /\ writes' = SweepSaves(gone, reg)
     /\ linkHistory' = [f \in Firms |-> IF f \in gone THEN "evicted" ELSE linkHistory[f]]
     /\ sweeps' = 1 - sweeps
     /\ UNCHANGED <<serverVars, emptiedAt, now, phone, formatted, store, nextId, firstAttempts, dropped>>

\* --------------------------------------------------------- phone numbers
\* the caller's number grows by one digit
TypeDigit(c) ==
  /\ Len(SelectSeq(phone, IsDigit)) < MaxDigits
  /\ phone' = Append(phone, c)
  /\ formatted' = <<>>
  /\ UNCHANGED <<serverVars, emptiedAt, now, sweeps, sessions, released, qrPending, timers, drains, store,
                 writes, nextId, firstAttempts, dropped, linkHistory>>

\* the caller's number grows by one character that is not a digit
TypeSeparator(c) ==
  /\ Len(phone) - Len(SelectSeq(phone, IsDigit)) < MaxSeparators
  /\ phone' = Append(phone, c)
  /\ formatted' = <<>>
  /\ UNCHANGED <<serverVars, emptiedAt, now, sweeps, sessions, released, qrPending, timers, drains, store,
                 writes, nextId, firstAttempts, dropped, linkHistory>>

\* formatPhoneNumber is called on the number
FormatCall ==
  /\ formatted' = <<FormatPhoneNumber(phone)>>
  /\ UNCHANGED <<serverVars, emptiedAt, now, sweeps, phone, sessions, released, qrPending, timers, drains,
                 store, writes, nextId, firstAttempts, dropped, linkHistory>>

\* -------------------------------------------------------------------- Next
\* the continuations of the suspended drains of firm f
DrainStepOf(f) ==
  \/ \E d \in drains[f] : SendResolves(f, d)
  \/ \E d \in drains[f] : SendRateLimited(f, d)
  \/ \E d \in drains[f] : SendFails(f, d)
  \/ \E d \in drains[f] : PacingElapsed(f, d)
  \/ \E d \in drains[f] : CooldownElapsed(f, d)

\* the continuations of the suspended drains
DrainStep ==
  \/ \E f \in ActiveFirms : \E d \in drains[f] : SendResolves(f, d)
  \/ \E f \in ActiveFirms : \E d \in drains[f] : SendRateLimited(f, d)
  \/ \E f \in ActiveFirms : \E d \in drains[f] : SendFails(f, d)
  \/ \E f \in ActiveFirms : \E d \in drains[f] : PacingElapsed(f, d)
  \/ \E f \in ActiveFirms : \E d \in drains[f] : CooldownElapsed(f, d)

\* the whole service
Next ==
  \/ \E f \in ActiveFirms : GetSessionRequest(f)
  \/ \E f \in ActiveFirms : QrRequest(f, MaxAttemptsSeen)
  \/ \E f \in ActiveFirms, throws \in BOOLEAN : ResetRequest(f, throws) /\ Unrecorded
  \/ \E f \in ActiveFirms, throws \in BOOLEAN : DisconnectRequest(f, throws) /\ Unrecorded
  \/ \E f \in ActiveFirms : ClearQueueRequest(f) /\ Unrecorded
  \/ \E f \in ActiveFirms, n \in 1..MaxBulk : SendMessagesRequest(f, n, MaxMsgs)
  \/ \E f \in ActiveFirms : OnQr(f)
  \/ \E f \in ActiveFirms, ok \in BOOLEAN : QrRendered(f, ok)
  \/ \E f \in ActiveFirms : OnReady(f)
  \/ \E f \in ActiveFirms : OnAuthenticated(f)
  \/ \E f \in ActiveFirms : OnAuthFailure(f)
  \/ \E f \in ActiveFirms, reason \in DisconnectReasons : OnDisconnected(f, reason, MaxPending)
  \/ \E t \in timers : TimerFires(t, MaxAttemptsSeen)
  \/ DrainStep
  \/ QueueInterval
  \/ SaveInterval
  \/ \E w \in writes : WriteCompletes(w)

Spec == Init /\ [][Next]_vars

\* The dispatcher reads isReady, client, messageQueue and isProcessingQueue
\* only.  QueueNext keeps every handler that writes one of them and leaves
\* out the handlers that write nothing but status, qrCode and the file.
QueueNext ==
  \/ \E f \in ActiveFirms : QrRequest(f, QMaxAttemptsSeen)
  \/ \E f \in ActiveFirms, throws \in BOOLEAN : ResetRequest(f, throws) /\ Unrecorded
  \/ \E f \in ActiveFirms, throws \in BOOLEAN : DisconnectRequest(f, throws) /\ Unrecorded
  \/ \E f \in ActiveFirms : ClearQueueRequest(f) /\ Unrecorded
  \/ \E f \in ActiveFirms, n \in 1..QMaxBulk : SendMessagesRequest(f, n, QMaxMsgs)
  \/ \E f \in ActiveFirms : OnReady(f)
  \/ \E f \in ActiveFirms, reason \in DisconnectReasons : OnDisconnected(f, reason, QMaxPending)
  \/ \E t \in timers : TimerFires(t, QMaxAttemptsSeen)
  \/ DrainStep
  \/ QueueInterval

QueueSpec == Init /\ [][QueueNext]_vars

\* QueueSpec with the scheduling the runtime provides: the 45 s interval
\* keeps firing, and the promise or timer a drain awaits settles.
FairQueueSpec == QueueSpec /\ WF_vars(QueueInterval) /\ WF_vars(DrainStep)

\* A session that is paired once and stays ready, the enqueue requests and
\* the drains with every outcome of a send.
BatchNext ==
  \/ \E f \in ActiveFirms : QrRequest(f, QMaxAttemptsSeen)
  \/ \E f \in ActiveFirms : OnReady(f)
  \/ \E f \in ActiveFirms, n \in 1..BMaxMsgs : SendMessagesRequest(f, n, BMaxMsgs)
  \/ DrainStep
  \/ QueueInterval

BatchSpec == Init /\ [][BatchNext]_vars

\* The client lifecycle: the handlers that read or write client, status,
\* isReady, reconnectAttempts, isPersistent or the timers.  The queue, the
\* QR rendering and the file are left out.
LifecycleNext ==
  \/ \E f \in ActiveFirms : GetSessionRequest(f)
  \/ \E f \in ActiveFirms : QrRequest(f, LMaxAttemptsSeen)
  \/ \E f \in ActiveFirms, throws \in BOOLEAN : ResetRequest(f, throws) /\ Unrecorded
  \/ \E f \in ActiveFirms, throws \in BOOLEAN : DisconnectRequest(f, throws) /\ Unrecorded
  \/ \E f \in ActiveFirms : OnQr(f)
  \/ \E f \in ActiveFirms : OnReady(f)
  \/ \E f \in ActiveFirms : OnAuthenticated(f)
  \/ \E f \in ActiveFirms : OnAuthFailure(f)
  \/ \E f \in ActiveFirms, reason \in DisconnectReasons : OnDisconnected(f, reason, LMaxPending)
  \/ \E t \in timers : TimerFires(t, LMaxAttemptsSeen)

LifecycleSpec == Init /\ [][LifecycleNext]_vars

\* The registry over time: the handlers that create sessions and clients
\* and that write isReady, isPersistent or the status the sweep reads,
\* with the clock, the heartbeat and the cleanup sweep.  A restored record
\* may be as old as three session timeouts.
ReaperInit == InitFrom(Files(ActiveFirms, {0, 3 * SESSION_TIMEOUT}))

ReaperNext ==
  \/ \E f \in ActiveFirms : GetSessionRequest(f)
  \/ \E f \in ActiveFirms : QrRequest(f, RMaxAttemptsSeen)
  \/ \E f \in ActiveFirms, throws \in BOOLEAN : DisconnectRequest(f, throws) /\ Unrecorded
  \/ \E f \in ActiveFirms : OnReady(f)
  \/ \E f \in ActiveFirms : OnAuthFailure(f)
  \/ \E f \in ActiveFirms, reason \in DisconnectReasons : OnDisconnected(f, reason, RMaxPending)
  \/ \E t \in timers : TimerFires(t, RMaxAttemptsSeen)
  \/ Tick(MaxTicks)
  \/ Heartbeat
  \/ Cleanup

ReaperSpec == ReaperInit /\ [][ReaperNext]_vars

\* formatPhoneNumber alone: numbers typed from the digits 9 and 1 and the
\* separator -, formatted at any point.
PhoneInit == InitFrom(Files({}, {0}))

PhoneNext ==
  \/ \E c \in {"9", "1"} : TypeDigit(c)
  \/ \E c \in {"-"} : TypeSeparator(c)
  \/ FormatCall

PhoneSpec == PhoneInit /\ [][PhoneNext]_vars

\* Two tenants side by side.  TenantStep(f): handlers and continuations
\* that run for tenant f alone - requests, the events of its client that
\* open and close the link, its timers, the outcomes of its sends and the
\* steps of its drains.  Both tenants are driven, so the handlers kept are
\* the ones that create a session, a client, a timer or a drain.
TenantStep(f) ==
  \/ GetSessionRequest(f)
  \/ QrRequest(f, IMaxAttemptsSeen)
  \/ ClearQueueRequest(f) /\ Unrecorded
  \/ \E n \in 1..IMaxBulk : SendMessagesRequest(f, n, IMaxMsgs)
  \/ OnReady(f)
  \/ \E reason \in DisconnectReasons : OnDisconnected(f, reason, IMaxPending)
  \/ \E t \in timers : t.firm = f /\ TimerFires(t, IMaxAttemptsSeen)
  \/ DrainStepOf(f)

IsolationInit == InitFrom(Files(Firms, {0}))

IsolationNext == \E f \in Firms : TenantStep(f)

IsolationSpec == IsolationInit /\ [][IsolationNext]_vars


\* ======================================================== dispatcher claims
IsIncreasing(q) == \A i, j \in 1..Len(q) : i < j => q[i] < q[j]

InPhase(f, ph) == \E d \in drains[f] : d.phase = ph

\* a send is started for firm f in this step
SendStarts(f) == \E d \in drains'[f] : d.phase = "sending" /\ d \notin drains[f]

\* C1: within one session the first send attempts happen in enqueue order:
\* the messages, listed by their first attempt, carry increasing ids.
C1_FifoFirstAttempts == \A f \in Firms : IsIncreasing(firstAttempts[f])

\* C1 witness: three messages attempted, the last one just rate-limited and
\* back in the queue.
C1_Witness ==
  /\ Len(firstAttempts["f1"]) = 3
  /\ \E d \in drains["f1"] : d.phase = "cooldown" /\ d.msg = 3
  /\ sessions["f1"].messageQueue = <<3>>

\* C2: a rate-limit failure puts the message back at the head of the queue,
\* in front of everything still queued; while the drain cools down the
\* message, if still queued, is the head; and when the cooldown ends the
\* drain ends without starting another send or touching the queue.
C2_RateLimitRequeue ==
  [][\A f \in ActiveFirms : \A d \in drains[f] :
       /\ (d.phase = "sending" /\ [d EXCEPT !.phase = "cooldown"] \in drains'[f])
            => /\ sessions'[f].messageQueue = <<d.msg>> \o sessions[f].messageQueue
               /\ ~SendStarts(f)
               /\ firstAttempts'[f] = firstAttempts[f]
               /\ d.msg \notin dropped'
       /\ (d.phase = "cooldown" /\ d \notin drains'[f] /\ Has(f) /\ f \in DOMAIN sessions')
            => /\ drains'[f] = drains[f] \ {d}
               /\ ~SendStarts(f)
               /\ sessions'[f].messageQueue = sessions[f].messageQueue
               /\ firstAttempts'[f] = firstAttempts[f]]_vars

\* C2 witness: a rate-limited message is back at the head, in front of two
\* messages that were never attempted.
C2_Witness ==
  /\ Has("f1")
  /\ \E d \in drains["f1"] : d.phase = "cooldown" /\ d.msg = 1
  /\ sessions["f1"].messageQueue = <<1, 2, 3>>
  /\ firstAttempts["f1"] = <<1>>

\* C3: at most one drain is in flight per session, it runs with
\* isProcessingQueue set, and with the flag set a further call of
\* processMessageQueue leaves the session as it is and starts nothing.
C3_SingleFlight ==
  \A f \in DOMAIN sessions :
    /\ Cardinality(drains[f]) <= 1
    /\ drains[f] # {} => sessions[f].isProcessingQueue
    /\ sessions[f].isProcessingQueue =>
         /\ ProcessMessageQueue(sessions[f]).s = sessions[f]
         /\ ProcessMessageQueue(sessions[f]).d = {}

\* C3 witness: a send is in flight while the session is ready with messages
\* queued, so that a trigger arriving now would find work to do.
C3_Witness ==
  /\ Has("f1") /\ InPhase("f1", "sending")
  /\ sessions["f1"].isReady /\ Len(sessions["f1"].messageQueue) = 2

\* C4: whenever a send is started the session is ready and has a client,
\* before and after the step; so a drain whose session stopped being ready
\* starts no further send.
C4_SendOnlyWhenReady ==
  [][\A f \in ActiveFirms :
       SendStarts(f) => /\ Has(f) /\ sessions[f].isReady
                        /\ sessions'[f].isReady /\ sessions'[f].client # NoClient]_vars

\* C4 witness: the session stopped being ready while its drain paces between
\* two messages of a batch; the next message stays queued.
C4_Witness ==
  /\ Has("f1") /\ ~sessions["f1"].isReady
  /\ \E d \in drains["f1"] : d.phase = "pacing" /\ d.i + 1 < d.batchSize
  /\ sessions["f1"].messageQueue # <<>>

\* C6: a message whose send failed with another error is not in the queue
\* and not in flight again, and in the step that drops it the same drain
\* goes on with the head of the queue when the loop condition allows it.
C6_DropAndContinue ==
  /\ [](\A f \in DOMAIN sessions : \A m \in dropped :
          /\ m \notin Range(sessions[f].messageQueue)
          /\ \A d \in drains[f] : d.phase = "sending" => d.msg # m)
  /\ [][\A f \in ActiveFirms : \A d \in drains[f] :
          (/\ d.phase = "sending" /\ d.msg \in dropped' /\ d.msg \notin dropped
           /\ LoopContinues(sessions[f], d.i + 1, d.batchSize)
           /\ sessions[f].messageQueue # <<>> /\ sessions[f].client # NoClient)
          => [phase |-> "sending", msg |-> Head(sessions[f].messageQueue),
              i |-> d.i + 1, batchSize |-> d.batchSize] \in drains'[f]]_vars

\* C6 witness: the first message of a batch was dropped and the same drain
\* is sending the second one.
C6_Witness ==
  /\ 1 \in dropped
  /\ \E d \in drains["f1"] : d.phase = "sending" /\ d.msg = 2 /\ d.i = 1


\* the ids lo..hi in order
Ids(lo, hi) == [k \in 1..(IF hi < lo THEN 0 ELSE hi - lo + 1) |-> lo + k - 1]

\* C5: one drain invocation takes at most 5 messages.  On a session that
\* stays ready a drain started on n queued messages has batch size
\* min(5, n); when it runs through it has attempted exactly that many, the
\* oldest ones, and the others are still queued in order for the next drain
\* (7 queued: 1..5 attempted, 6 and 7 left, the next drain takes those 2).
C5_BatchOfFive ==
  /\ [](\A f \in Firms : \A d \in drains[f] : d.i < d.batchSize /\ d.batchSize <= BATCH_SIZE)
  /\ [][\A f \in ActiveFirms :
          /\ (Has(f) /\ drains[f] = {} /\ drains'[f] # {}) =>
               \A d \in drains'[f] :
                 /\ d.i = 0
                 /\ d.batchSize = Min(BATCH_SIZE, Len(sessions'[f].messageQueue) + 1)
          /\ \A d \in drains[f] :
               (d.phase \in {"sending", "pacing"} /\ drains'[f] = {}) =>
                 /\ d.i + 1 = d.batchSize
                 /\ firstAttempts'[f] = Ids(1, d.msg)
                 /\ sessions'[f].messageQueue = Ids(d.msg + 1, nextId - 1)
                 /\ ~sessions'[f].isProcessingQueue]_vars

\* C5 witness: of 7 messages the first drain attempted 1..5 and ended, and
\* a second drain with batch size 2 is sending message 6 with message 7
\* still queued.
C5_Witness ==
  /\ Has("f1") /\ dropped = {}
  /\ firstAttempts["f1"] = <<1, 2, 3, 4, 5, 6>>
  /\ sessions["f1"].messageQueue = <<7>>
  /\ drains["f1"] = {[phase |-> "sending", msg |-> 6, i |-> 0, batchSize |-> 2]}


\* C7: if from some point on the session stays ready and no send is
\* rate-limited any more, then from some point on its queue is empty.
C7_EventuallyDrained ==
  \A f \in ActiveFirms :
    (/\ <>[](Has(f) /\ sessions[f].isReady)
     /\ <>[](~InPhase(f, "cooldown")))
    => <>[](Has(f) /\ sessions[f].messageQueue = <<>>)


\* ========================================================= lifecycle claims
\* C8 as stated: isPersistent is true exactly when a ready event has been
\* observed for the session since its last permanent disconnect, or since
\* its creation.
C8_PersistentIffReadySeen ==
  \A f \in DOMAIN sessions : sessions[f].isPersistent <=> linkHistory[f] = "ready"

\* C8 amended: isPersistent is true exactly when a ready event has been
\* observed since the last permanent disconnect or the creation, or the
\* session was restored from the file at startup and has not been
\* permanently disconnected since.
C8_PersistentIffReadyOrRestored ==
  \A f \in DOMAIN sessions :
    sessions[f].isPersistent <=> linkHistory[f] \in {"ready", "restored"}

\* C8 witness: a session created by a request became ready and then lost its
\* connection; it is still marked persistent.
C8_Witness ==
  /\ Has("f1") /\ linkHistory["f1"] = "ready" /\ store = {}
  /\ sessions["f1"].status = "disconnected" /\ sessions["f1"].isPersistent

\* C9 as stated: after a permanent disconnect (and until a later ready
\* event) isPersistent is false, and once no write is in progress the firm
\* is not in the file.
C9_UnlinkedNotPersisted ==
  \A f \in DOMAIN sessions :
    linkHistory[f] = "unlinked" =>
      /\ ~sessions[f].isPersistent
      /\ writes = {} => f \notin store

\* C10 as stated: from manually_disconnected the status changes, and a
\* client appears, only by a QR request or a reset request for that session.
C10_ManualDisconnectSticks ==
  [][\A f \in ActiveFirms :
       (/\ Has(f) /\ sessions[f].status = "manually_disconnected"
        /\ ~QrRequest(f, MaxAttemptsSeen)
        /\ ~(\E throws \in BOOLEAN : ResetRequest(f, throws)))
       => /\ f \in DOMAIN sessions'
          /\ sessions'[f].status = "manually_disconnected"
          /\ sessions'[f].client = sessions[f].client]_vars

\* ========================================================= reconnect claims
\* C11: after a 'disconnected' event on a persistent session a reconnect
\* timer is pending, and when a reconnect timer fires on a registered,
\* persistent session that is not manually disconnected, the session gets a
\* new client and status initializing.
C11_ReconnectInitializes ==
  [][\A f \in ActiveFirms :
       /\ \A reason \in DisconnectReasons :
            (OnDisconnected(f, reason, LMaxPending) /\ sessions[f].isPersistent)
              => \E t \in timers' : t.firm = f /\ t.kind = "reconnect"
       /\ \A t \in PendingReconnects(f) :
            (/\ Has(f)
             /\ sessions[f].isPersistent
             /\ sessions[f].status # "manually_disconnected"
             /\ sessions[f].reconnectAttempts < maxReconnectAttempts
             /\ TimerFires(t, LMaxAttemptsSeen))
              => sessions'[f].status = "initializing" /\ sessions'[f].client # NoClient
    ]_vars

\* the delays of the claimed backoff 10 s, 20 s, ..., capped at 60 s
BackoffDelays == {Min(60000, 10000 * k) : k \in 1..(LMaxAttemptsSeen + 1)}

\* C12: every reconnect timer a 'disconnected' event schedules for a
\* persistent session carries a delay min(60 s, 10 s * k) for an attempt
\* number k >= 1: at least 10 s, at most 60 s.
C12_PersistentBackoff ==
  [][\A f \in ActiveFirms, reason \in DisconnectReasons :
       (OnDisconnected(f, reason, LMaxPending) /\ sessions[f].isPersistent)
         => \A t \in timers' \ timers : t.delay \in BackoffDelays
    ]_vars

\* C13: a 'disconnected' event on a non-persistent session schedules nothing
\* when the reason is LOGOUT or NAVIGATION, and with any other reason
\* schedules exactly one reconnect, after min(30 s, 5 s * reconnectAttempts).
C13_NonPersistentReconnect ==
  [][\A f \in ActiveFirms, reason \in DisconnectReasons :
       (OnDisconnected(f, reason, LMaxPending) /\ ~sessions[f].isPersistent)
         => timers' = IF reason \in {"LOGOUT", "NAVIGATION"} THEN timers
                      ELSE timers \cup
                             {[firm |-> f, kind |-> "reconnect",
                               delay |-> Min(30000, 5000 * sessions[f].reconnectAttempts)]}
    ]_vars

\* C13 witness: a non-persistent session disconnected after its second
\* attempt, with the 10 s reconnect pending.
C13_Witness ==
  /\ Has("f1") /\ ~sessions["f1"].isPersistent
  /\ sessions["f1"].status = "disconnected"
  /\ sessions["f1"].reconnectAttempts = 2
  /\ PendingReconnects("f1") = {[firm |-> "f1", kind |-> "reconnect", delay |-> 10000]}

\* a call of initializeClient for firm f happens in this step
InitializeCalled(f) ==
  \/ QrRequest(f, LMaxAttemptsSeen) /\ sessions[f].client = NoClient
  \/ \E t \in timers : t.firm = f /\ TimerFires(t, LMaxAttemptsSeen)

\* C14: the step that takes reconnectAttempts to maxReconnectAttempts + 1
\* sets status max_attempts_reached and creates no client; and while the
\* status is max_attempts_reached a call of initializeClient creates no
\* client and changes no field of the session (lastActivity, which the
\* request refreshes, aside).
C14_ExhaustedIsNoOp ==
  [][\A f \in ActiveFirms :
       (Has(f) /\ f \in DOMAIN sessions') =>
         /\ (/\ sessions[f].reconnectAttempts = maxReconnectAttempts
             /\ sessions'[f].reconnectAttempts = maxReconnectAttempts + 1)
              => /\ sessions'[f].status = "max_attempts_reached"
                 /\ sessions'[f].client = NoClient
         /\ (sessions[f].status = "max_attempts_reached" /\ InitializeCalled(f))
              => sessions'[f] =
                   [sessions[f] EXCEPT !.lastActivity = sessions'[f].lastActivity]
    ]_vars

\* C15: when the 2 s timer of a reset fires on a session that was reset out
\* of max_attempts_reached (status resetting, no client, attempts used up),
\* the session gets a new client and status initializing.
C15_ResetRecovers ==
  [][\A f \in ActiveFirms :
       (/\ Has(f)
        /\ sessions[f].status = "resetting"
        /\ sessions[f].client = NoClient
        /\ sessions[f].reconnectAttempts > maxReconnectAttempts
        /\ TimerFires(InitTimer(f), LMaxAttemptsSeen))
         => sessions'[f].client # NoClient /\ sessions'[f].status = "initializing"
    ]_vars

\* ============================================================ startup claim
\* C20: a tenant with a record in the persisted file starts with a session
\* marked persistent and a pending initialization; as long as nothing but
\* lookups has touched it (status restoring) that holds, and when the
\* pending initialization runs, the session gets its client with status
\* initializing, no pairing request needed.  A tenant without a record has
\* no session until a request names it.
C20_RestoredAtStartup ==
  /\ [](\A f \in Firms :
          /\ linkHistory[f] = "none" => ~Has(f)
          /\ (Has(f) /\ sessions[f].status = "restoring")
               => /\ linkHistory[f] = "restored"
                  /\ sessions[f].isPersistent
                  /\ sessions[f].lastLinked # NoLink
                  /\ sessions[f].client = NoClient
                  /\ InitTimer(f) \in timers)
  /\ [][\A f \in Firms :
          (/\ Has(f) /\ sessions[f].status = "restoring"
           /\ TimerFires(InitTimer(f), LMaxAttemptsSeen))
            => /\ sessions'[f].client # NoClient
               /\ sessions'[f].status = "initializing"
               /\ sessions'[f].isPersistent
       ]_vars

\* C20 witness: the restored session holds the client its start timer
\* created: one attempt, timer gone, still marked persistent.
C20_Witness ==
  /\ linkHistory["f1"] = "restored" /\ ~Has("f2")
  /\ Has("f1") /\ sessions["f1"].client # NoClient
  /\ sessions["f1"].status = "initializing"
  /\ sessions["f1"].reconnectAttempts = 1
  /\ sessions["f1"].isPersistent
  /\ timers = {}

\* ============================================================ reaper claims
\* C16: no step removes from the registry a session whose status is ready,
\* whatever its age, its idle time and its isPersistent flag.
C16_ReadyNeverEvicted ==
  [][\A f \in Firms :
       (Has(f) /\ sessions[f].status = "ready") => f \in DOMAIN sessions'
    ]_vars

\* C16 witness: a ready session older than three timeouts and idle for more
\* than one, in the registry.
C16_Witness ==
  /\ Has("f1") /\ sessions["f1"].status = "ready"
  /\ IsVeryStale(sessions["f1"])
  /\ IsOld(sessions["f1"])

\* C17: a sweep removes a non-persistent session exactly when it has been
\* idle for more than the timeout or is older than three timeouts, and a
\* persistent session exactly when it is older than three timeouts, not
\* ready and in status disconnected; every other session is in the registry
\* after the sweep with all its fields as before.
C17_SweepEvictsExactly ==
  [][Cleanup =>
       \A f \in DOMAIN sessions :
         LET s == sessions[f]
             idle == now - s.lastActivity
             age == now - s.createdAt
             due == IF s.isPersistent
                    THEN age > 3 * SESSION_TIMEOUT /\ ~s.isReady /\ s.status = "disconnected"
                    ELSE idle > SESSION_TIMEOUT \/ age > 3 * SESSION_TIMEOUT
         IN IF due THEN f \notin DOMAIN sessions'
            ELSE f \in DOMAIN sessions' /\ sessions'[f] = s
    ]_vars

\* C17 witness: the tenant's session was evicted by a sweep, and the save
\* the sweep started is in flight.
C17_Witness ==
  /\ linkHistory["f1"] = "evicted" /\ ~Has("f1")
  /\ {} \in writes

\* ========================================================== registry claims
\* C18: a lookup of a tenant that has a session creates nothing and leaves
\* every field of every session as it was, except that the tenant's
\* lastActivity becomes the current time; a lookup of a tenant without a
\* session adds one session with status disconnected, an empty queue,
\* isPersistent false and no client, and starts no connection: no timer and
\* nothing else is started.
C18_GetOrCreateIdempotent ==
  [][\A f \in ActiveFirms :
       GetSessionRequest(f) =>
         /\ IF Has(f)
            THEN sessions' = [sessions EXCEPT ![f].lastActivity = now]
            ELSE /\ DOMAIN sessions' = DOMAIN sessions \cup {f}
                 /\ \A g \in DOMAIN sessions : sessions'[g] = sessions[g]
                 /\ sessions'[f].status = "disconnected"
                 /\ sessions'[f].messageQueue = <<>>
                 /\ ~sessions'[f].isPersistent
                 /\ ~sessions'[f].isReady
                 /\ sessions'[f].client = NoClient
                 /\ sessions'[f].lastActivity = now
         /\ timers' = timers /\ drains' = drains /\ writes' = writes
    ]_vars

\* C18 witness: a session created earlier and holding a client has just
\* been looked up: its lastActivity is the current time, later than its
\* creation, and its other fields are those initializeClient left.
C18_Witness ==
  /\ Has("f1") /\ ~sessions["f1"].isPersistent
  /\ sessions["f1"].status = "initializing"
  /\ sessions["f1"].client # NoClient
  /\ sessions["f1"].reconnectAttempts = 1
  /\ sessions["f1"].createdAt < now
  /\ sessions["f1"].lastActivity = now

StatusFound(f) == IF Has(f) THEN sessions[f].status ELSE "disconnected"

\* bounds of EnqueueSpec
EMaxMsgs == 1          \* messages enqueued in one behaviour
EMaxBulk == 1          \* messages of one request
EMaxAttemptsSeen == 1  \* cap on reconnectAttempts
EMaxPending == 1       \* pending reconnect timers of one firm

\* The enqueue routes in every status a session can have: the requests and
\* the client events that write status, isReady or client, the timers, and
\* the drains an accepted request starts.
EnqueueNext ==
  \/ \E f \in ActiveFirms : QrRequest(f, EMaxAttemptsSeen)
  \/ \E f \in ActiveFirms, throws \in BOOLEAN : ResetRequest(f, throws) /\ Unrecorded
  \/ \E f \in ActiveFirms, throws \in BOOLEAN : DisconnectRequest(f, throws) /\ Unrecorded
  \/ \E f \in ActiveFirms, n \in 1..EMaxBulk : SendMessagesRequest(f, n, EMaxMsgs)
  \/ \E f \in ActiveFirms : OnQr(f)
  \/ \E f \in ActiveFirms : OnReady(f)
  \/ \E f \in ActiveFirms : OnAuthenticated(f)
  \/ \E f \in ActiveFirms : OnAuthFailure(f)
  \/ \E f \in ActiveFirms, reason \in DisconnectReasons : OnDisconnected(f, reason, EMaxPending)
  \/ \E t \in timers : TimerFires(t, EMaxAttemptsSeen)
  \/ DrainStep

EnqueueSpec == Init /\ [][EnqueueNext]_vars

\* C21: an enqueue request for a session that is not ready is answered with
\* 503 and the session's current status; it pushes nothing, starts no drain
\* and leaves every field of the session but lastActivity as it was (a
\* tenant without a session gets the new, empty one).
C21_NotReadyRejected ==
  [][\A f \in ActiveFirms, n \in 1..EMaxBulk :
       (SendMessagesRequest(f, n, EMaxMsgs) /\ ~GetOrCreateSession(f)[f].isReady)
         => /\ EnqueueResponse(GetOrCreateSession(f)[f]) = [code |-> 503, status |-> StatusFound(f)]
            /\ sessions'[f] = IF Has(f) THEN [sessions[f] EXCEPT !.lastActivity = now]
                              ELSE NewSession
            /\ drains' = drains /\ nextId' = nextId /\ timers' = timers
    ]_vars

\* C21 witness: a tenant whose session exists through a rejected request
\* only: new, not ready, nothing queued, no message id handed out.
C21_Witness ==
  /\ Has("f1") /\ linkHistory["f1"] = "created"
  /\ ~sessions["f1"].isReady /\ sessions["f1"].status = "disconnected"
  /\ sessions["f1"].client = NoClient
  /\ sessions["f1"].messageQueue = <<>> /\ nextId = 1

\* ============================================================= phone claim
\* C22: with d the digits of the argument: d of 12 digits starting with 91
\* is the result; d of 10 digits gives 91 d; any other d of at least 10
\* digits gives 91 followed by the last 10 digits of d; so every argument
\* with at least 10 digits gives 12 digits starting with 91.  The three
\* numbers of the specification all give 919876543210.
C22_PhoneNormalization ==
  /\ \A r \in Range(formatted) :
       LET d == SelectSeq(phone, IsDigit)
           n == Len(d)
       IN /\ (n = 12 /\ d[1] = "9" /\ d[2] = "1") => r = d
          /\ n = 10 => r = <<"9", "1">> \o d
          /\ (n >= 10 /\ n # 10 /\ ~(n = 12 /\ d[1] = "9" /\ d[2] = "1"))
               => r = <<"9", "1">> \o [i \in 1..10 |-> d[n - 10 + i]]
          /\ n >= 10 => Len(r) = 12 /\ r[1] = "9" /\ r[2] = "1"
  /\ \A example \in {<<"9", "8", "7", "6", "5", "4", "3", "2", "1", "0">>,
                     <<"9", "1", "9", "8", "7", "6", "5", "4", "3", "2", "1", "0">>,
                     <<"+", "9", "1", "-", "9", "8", "7", "6", "5", "-",
                       "4", "3", "2", "1", "0">>} :
       FormatPhoneNumber(example) =
         <<"9", "1", "9", "8", "7", "6", "5", "4", "3", "2", "1", "0">>

\* C22 witness: an 11-digit number with a separator, formatted to 91 and
\* its last ten digits.
C22_Witness ==
  /\ Len(phone) = 12 /\ Len(SelectSeq(phone, IsDigit)) = 11
  /\ phone[1] = "1" /\ phone[2] = "-" /\ phone[3] = "9"
  /\ formatted # <<>>
  /\ formatted[1] = <<"9", "1">> \o SubSeq(phone, 3, 12)

C24_ResetReinitializes ==
  [][\A f \in ActiveFirms :
       /\ ResetRequest(f, FALSE)
            => /\ sessions'[f].messageQueue = <<>>
               /\ ~sessions'[f].qrCode /\ ~sessions'[f].isReady
               /\ sessions'[f].client = NoClient
               /\ sessions'[f].status = "resetting"
               /\ InitTimer(f) \in timers'
       /\ (/\ Has(f) /\ sessions[f].status = "resetting"
           /\ sessions[f].client = NoClient
           /\ TimerFires(InitTimer(f), LMaxAttemptsSeen))
            => sessions'[f].client # NoClient /\ sessions'[f].status = "initializing"
    ]_vars

\* C27: a session's reconnectAttempts never exceeds maxReconnectAttempts + 1.
C27_AttemptsBounded ==
  \A f \in DOMAIN sessions : sessions[f].reconnectAttempts <= maxReconnectAttempts + 1

\* C28: a session holds a client only while its status is initializing,
\* qr_ready, authenticated or ready.
C28_ClientOnlyWhileConnecting ==
  \A f \in DOMAIN sessions :
    sessions[f].client # NoClient
      => sessions[f].status \in {"initializing", "qr_ready", "authenticated", "ready"}

\* C29: the QR payload of a session is present only while its status is
\* qr_ready, also when the rendering completes after the status has changed.
C29_QrOnlyWhileQrReady ==
  \A f \in DOMAIN sessions : sessions[f].qrCode => sessions[f].status = "qr_ready"

\* C30: a pairing request or a firing timer that finds the session holding
\* a client leaves the client and every other field of the session as they
\* were (lastActivity, which the request refreshes, aside).
C30_InitializeOverClientIsNoOp ==
  [][\A f \in ActiveFirms :
       (/\ Has(f) /\ sessions[f].client # NoClient
        /\ \/ QrRequest(f, LMaxAttemptsSeen)
           \/ \E t \in timers : t.firm = f /\ TimerFires(t, LMaxAttemptsSeen))
         => /\ f \in DOMAIN sessions'
            /\ sessions'[f] =
                 [sessions[f] EXCEPT !.lastActivity = sessions'[f].lastActivity]
    ]_vars

\* a persistent session in status disconnected that holds its client with no
\* timer pending: the reconnect timer of the 'disconnected' event has fired
\* on the session and left it as it was
C30_Witness ==
  /\ Has("f1") /\ sessions["f1"].client # NoClient
  /\ sessions["f1"].status = "disconnected" /\ sessions["f1"].isPersistent
  /\ sessions["f1"].reconnectAttempts = 1
  /\ timers = {}

\* ======================================================= src/server.js
\* bounds of ServerSpec
SMaxMsgs == 2        \* messages enqueued in one behaviour
SMaxBulk == 2        \* messages of one request
SMaxPending == 1     \* pending reconnect timers of one firm
SMaxDestroys == 1    \* /api/disconnect requests of one firm awaiting destroy()

\* one more send attempt of each message in ms
AttemptedAll(log, ms) ==
  [x \in (DOMAIN log) \cup ms |->
     (IF x \in DOMAIN log THEN log[x] ELSE 0) + (IF x \in ms THEN 1 ELSE 0)]

\* one more send attempt of message m
Attempted(log, m) == AttemptedAll(log, {m})

\* the array a suspended processMessageQueue holds: the one it read from
\* the Map (line 36), which is the Map's array until the entry is replaced
ArrayOf(f, r) == IF r.own THEN r.rest ELSE messageQueues[f]

\* the Map entry of f gets another array: the invocations that read the old
\* one keep it
Detached(f) ==
  {IF r.own THEN r ELSE [r EXCEPT !.own = TRUE, !.rest = messageQueues[f]] : r \in runs[f]}

\* the guard of processMessageQueue (line 40)
ServerDrainGuard(f) ==
  /\ ~processingStates[f]
  /\ messageQueues[f] # <<>>
  /\ connectionStatuses[f] = "ready"
  /\ clients[f] # NoClient

\* a new invocation at its first await: the head of the array is shifted
\* and handed to client.sendMessage
FirstSend(q) == [phase |-> "sending", msg |-> Head(q), own |-> FALSE, rest |-> <<>>]

\* processMessageQueue(firmId) up to its first await, on the Map array q
ServerProcessMessageQueue(f, q) ==
  IF ~processingStates[f] /\ q # <<>> /\ connectionStatuses[f] = "ready"
     /\ clients[f] # NoClient
  THEN /\ processingStates' = [processingStates EXCEPT ![f] = TRUE]
       /\ messageQueues' = [messageQueues EXCEPT ![f] = Tail(q)]
       /\ runs' = [runs EXCEPT ![f] = @ \cup {FirstSend(q)}]
       /\ sendAttempts' = Attempted(sendAttempts, Head(q))
  ELSE /\ messageQueues' = [messageQueues EXCEPT ![f] = q]
       /\ UNCHANGED <<processingStates, runs, sendAttempts>>

\* initializeClient(firmId): a new client, status 'connecting', a new empty
\* queue array and processing false (lines 74-146)
ServerInitializeClient(f) ==
  /\ clients' = [clients EXCEPT ![f] = TheClient]
  /\ connectionStatuses' = [connectionStatuses EXCEPT ![f] = "connecting"]
  /\ messageQueues' = [messageQueues EXCEPT ![f] = <<>>]
  /\ processingStates' = [processingStates EXCEPT ![f] = FALSE]
  /\ runs' = [runs EXCEPT ![f] = Detached(f)]

\* POST /api/connect and POST /api/qr: initializeClient unless the firm has
\* a client
ConnectRequest(f) ==
  /\ IF clients[f] = NoClient THEN ServerInitializeClient(f)
     ELSE UNCHANGED <<clients, connectionStatuses, messageQueues, processingStates, runs>>
  /\ manual' = [manual EXCEPT ![f] = FALSE]
  /\ UNCHANGED <<serviceVars, qrCodes, renderings, reconnects, destroying, queuedIds,
                 sendAttempts, failedSends>>

\* 'qr' handler of server.js
ServerOnQr(f) ==
  /\ clients[f] # NoClient
  /\ connectionStatuses' = [connectionStatuses EXCEPT ![f] = "qr_ready"]
  /\ renderings' = [renderings EXCEPT ![f] = TRUE]
  /\ UNCHANGED <<serviceVars, clients, qrCodes, messageQueues, processingStates, reconnects,
                 destroying, runs, queuedIds, sendAttempts, failedSends, manual>>

\* the callback of QRCode.toDataURL in server.js
ServerQrRendered(f, ok) ==
  /\ renderings[f]
  /\ renderings' = [renderings EXCEPT ![f] = FALSE]
  /\ qrCodes' = IF ok THEN [qrCodes EXCEPT ![f] = TRUE] ELSE qrCodes
  /\ UNCHANGED <<serviceVars, clients, connectionStatuses, messageQueues, processingStates,
                 reconnects, destroying, runs, queuedIds, sendAttempts, failedSends, manual>>

\* the handlers that only write the status: 'authenticated' and 'auth_failure'
ServerOnStatusEvent(f, status) ==
  /\ clients[f] # NoClient
  /\ connectionStatuses' = [connectionStatuses EXCEPT ![f] = status]
  /\ UNCHANGED <<serviceVars, clients, qrCodes, messageQueues, processingStates, renderings,
                 reconnects, destroying, runs, queuedIds, sendAttempts, failedSends, manual>>

\* 'ready' handler of server.js
ServerOnReady(f) ==
  /\ clients[f] # NoClient
  /\ connectionStatuses' = [connectionStatuses EXCEPT ![f] = "ready"]
  /\ qrCodes' = [qrCodes EXCEPT ![f] = FALSE]
  /\ UNCHANGED <<serviceVars, clients, messageQueues, processingStates, renderings,
                 reconnects, destroying, runs, queuedIds, sendAttempts, failedSends, manual>>

\* 'disconnected' handler of server.js: the client leaves the Map and a 5 s
\* timer is started
ServerOnDisconnected(f, maxPending) ==
  /\ clients[f] # NoClient
  /\ reconnects[f] < maxPending
  /\ connectionStatuses' = [connectionStatuses EXCEPT ![f] = "disconnected"]
  /\ clients' = [clients EXCEPT ![f] = NoClient]
  /\ reconnects' = [reconnects EXCEPT ![f] = @ + 1]
  /\ UNCHANGED <<serviceVars, qrCodes, messageQueues, processingStates, renderings,
                 destroying, runs, queuedIds, sendAttempts, failedSends, manual>>

\* the 5 s timer fires: initializeClient unless the status is no longer
\* 'disconnected' (lines 134-138)
ServerReconnectFires(f) ==
  /\ reconnects[f] > 0
  /\ reconnects' = [reconnects EXCEPT ![f] = @ - 1]
  /\ IF connectionStatuses[f] = "disconnected" THEN ServerInitializeClient(f)
     ELSE UNCHANGED <<clients, connectionStatuses, messageQueues, processingStates, runs>>
  /\ UNCHANGED <<serviceVars, qrCodes, renderings, destroying, queuedIds, sendAttempts,
                 failedSends, manual>>

\* the clean-up of POST /api/disconnect (lines 310-315)
ServerCleanUp(f) ==
  /\ clients' = [clients EXCEPT ![f] = NoClient]
  /\ qrCodes' = [qrCodes EXCEPT ![f] = FALSE]
  /\ connectionStatuses' = [connectionStatuses EXCEPT ![f] = "disconnected"]
  /\ messageQueues' = [messageQueues EXCEPT ![f] = <<>>]
  /\ processingStates' = [processingStates EXCEPT ![f] = FALSE]
  /\ runs' = [runs EXCEPT ![f] = Detached(f)]
  /\ manual' = [manual EXCEPT ![f] = TRUE]

\* POST /api/disconnect: with a client in the Map the handler awaits
\* client.destroy(), without one it cleans up at once
ServerDisconnectRequest(f, maxDestroys) ==
  /\ IF clients[f] # NoClient
     THEN /\ destroying[f] < maxDestroys
          /\ destroying' = [destroying EXCEPT ![f] = @ + 1]
          /\ UNCHANGED <<clients, qrCodes, connectionStatuses, messageQueues,
                         processingStates, runs, manual>>
     ELSE ServerCleanUp(f) /\ UNCHANGED destroying
  /\ UNCHANGED <<serviceVars, renderings, reconnects, queuedIds, sendAttempts, failedSends>>

\* client.destroy() settles, either way: the handler cleans up
ServerDestroySettles(f) ==
  /\ destroying[f] > 0
  /\ destroying' = [destroying EXCEPT ![f] = @ - 1]
  /\ ServerCleanUp(f)
  /\ UNCHANGED <<serviceVars, renderings, reconnects, queuedIds, sendAttempts, failedSends>>

\* POST /api/send-bulk-messages (and the event and task routes) with n valid
\* messages: 503 unless the status is ready, else push and processMessageQueue
ServerSendMessagesRequest(f, n, maxMsgs) ==
  /\ connectionStatuses[f] = "ready"
  /\ queuedIds + n - 1 <= maxMsgs
  /\ queuedIds' = queuedIds + n
  /\ ServerProcessMessageQueue(f, messageQueues[f] \o [i \in 1..n |-> queuedIds + i - 1])
  /\ UNCHANGED <<serviceVars, clients, qrCodes, connectionStatuses, renderings, reconnects,
                 destroying, failedSends, manual>>

\* POST /api/clear-queue: the Map entry becomes a new empty array
ServerClearQueueRequest(f) ==
  /\ messageQueues' = [messageQueues EXCEPT ![f] = <<>>]
  /\ runs' = [runs EXCEPT ![f] = Detached(f)]
  /\ UNCHANGED <<serviceVars, clients, qrCodes, connectionStatuses, processingStates,
                 renderings, reconnects, destroying, queuedIds, sendAttempts, failedSends,
                 manual>>

\* the cron job (every 30 s): processMessageQueue for every firm with a
\* client, a non-empty queue, status ready and no drain in progress
ServerCron ==
  LET starts == {f \in Firms : ServerDrainGuard(f)}
  IN /\ starts # {}
     /\ processingStates' = [f \in Firms |-> processingStates[f] \/ f \in starts]
     /\ messageQueues' = [f \in Firms |->
                            IF f \in starts THEN Tail(messageQueues[f]) ELSE messageQueues[f]]
     /\ runs' = [f \in Firms |->
                   IF f \in starts THEN runs[f] \cup {FirstSend(messageQueues[f])} ELSE runs[f]]
     /\ sendAttempts' = AttemptedAll(sendAttempts, {Head(messageQueues[f]) : f \in starts})
     /\ UNCHANGED <<serviceVars, clients, qrCodes, connectionStatuses, renderings, reconnects,
                    destroying, queuedIds, failedSends, manual>>

\* the while loop of processMessageQueue comes round (line 46): its
\* condition reads the array and the two constants isClientReady and client
\* taken at the start, so the loop goes on until the array is empty
ServerLoop(f, r) ==
  LET q == ArrayOf(f, r) IN
  IF q # <<>>
  THEN LET next == [r EXCEPT !.phase = "sending", !.msg = Head(q),
                             !.rest = IF r.own THEN Tail(q) ELSE <<>>]
       IN /\ runs' = [runs EXCEPT ![f] = (@ \ {r}) \cup {next}]
          /\ messageQueues' = IF r.own THEN messageQueues
                              ELSE [messageQueues EXCEPT ![f] = Tail(q)]
          /\ sendAttempts' = Attempted(sendAttempts, Head(q))
          /\ UNCHANGED processingStates
  ELSE /\ runs' = [runs EXCEPT ![f] = @ \ {r}]
       /\ processingStates' = [processingStates EXCEPT ![f] = FALSE]
       /\ UNCHANGED <<messageQueues, sendAttempts>>

\* client.sendMessage resolves: the loop awaits the 2 s delay
ServerSendResolves(f, r) ==
  /\ r \in runs[f] /\ r.phase = "sending"
  /\ runs' = [runs EXCEPT ![f] = (@ \ {r}) \cup {[r EXCEPT !.phase = "waiting"]}]
  /\ UNCHANGED <<serviceVars, clients, qrCodes, connectionStatuses, messageQueues,
                 processingStates, renderings, reconnects, destroying, queuedIds,
                 sendAttempts, failedSends, manual>>

\* client.sendMessage rejects: the catch block logs the failure and the loop
\* comes round
ServerSendRejects(f, r) ==
  /\ r \in runs[f] /\ r.phase = "sending"
  /\ failedSends' = failedSends \cup {r.msg}
  /\ ServerLoop(f, r)
  /\ UNCHANGED <<serviceVars, clients, qrCodes, connectionStatuses, renderings, reconnects,
                 destroying, queuedIds, manual>>

\* the 2 s delay is over: the loop comes round
ServerWaitDone(f, r) ==
  /\ r \in runs[f] /\ r.phase = "waiting"
  /\ ServerLoop(f, r)
  /\ UNCHANGED <<serviceVars, clients, qrCodes, connectionStatuses, renderings, reconnects,
                 destroying, queuedIds, failedSends, manual>>

\* no session of part_000 exists while server.js is looked at
ServerStart == InitFrom(Files({}, {0}))

ServerNext ==
  \/ \E f \in ActiveFirms : ConnectRequest(f)
  \/ \E f \in ActiveFirms : ServerOnQr(f)
  \/ \E f \in ActiveFirms, ok \in BOOLEAN : ServerQrRendered(f, ok)
  \/ \E f \in ActiveFirms, status \in {"connected", "auth_failed"} : ServerOnStatusEvent(f, status)
  \/ \E f \in ActiveFirms : ServerOnReady(f)
  \/ \E f \in ActiveFirms : ServerOnDisconnected(f, SMaxPending)
  \/ \E f \in ActiveFirms : ServerReconnectFires(f)
  \/ \E f \in ActiveFirms : ServerDisconnectRequest(f, SMaxDestroys)
  \/ \E f \in ActiveFirms : ServerDestroySettles(f)
  \/ \E f \in ActiveFirms, n \in 1..SMaxBulk : ServerSendMessagesRequest(f, n, SMaxMsgs)
  \/ \E f \in ActiveFirms : ServerClearQueueRequest(f)
  \/ ServerCron
  \/ \E f \in ActiveFirms : \E r \in runs[f] : ServerSendResolves(f, r)
  \/ \E f \in ActiveFirms : \E r \in runs[f] : ServerSendRejects(f, r)
  \/ \E f \in ActiveFirms : \E r \in runs[f] : ServerWaitDone(f, r)

ServerSpec == ServerStart /\ [][ServerNext]_vars

\* the messages the queue service still holds for firm f: in the Map's
\* array or in an array a running processMessageQueue reads
ServerHeld(f) ==
  Range(messageQueues[f]) \cup UNION {Range(r.rest) : r \in runs[f]}

\* C25: a message whose send attempt failed is still held in the firm's
\* queue, or has been given another send attempt.
C25_FailedSendRetried ==
  \A m \in failedSends :
    \/ \E f \in Firms : m \in ServerHeld(f)
    \/ sendAttempts[m] >= 2

\* C26: while a firm is manually disconnected (its last request for the
\* connection was /api/disconnect), a firing 5 s reconnect timer gives it no
\* client.
C26_ManualDisconnectStays ==
  [][\A f \in ActiveFirms :
       (manual[f] /\ ServerReconnectFires(f)) => clients'[f] = NoClient
    ]_vars

\* C31: whether or not destroying or logging out the old client fails, a
\* reset leaves the session without a client and with its 2 s timer pending
\* (so that the timer creates a new one), and a permanent disconnect leaves
\* the session without a client.
C31_DestroyFailureDoesNotBlock ==
  [][\A f \in ActiveFirms, throws \in BOOLEAN :
       /\ ResetRequest(f, throws)
            => sessions'[f].client = NoClient /\ InitTimer(f) \in timers'
       /\ DisconnectRequest(f, throws) => sessions'[f].client = NoClient
    ]_vars

\* C32: a reconnect timer that fires when its session has been evicted from
\* the registry, or is manually disconnected, changes no session registered
\* at that moment and so creates no client.
C32_StaleReconnectIsNoOp ==
  [][\A t \in timers :
       (/\ t.kind \in {"reconnect", "orphan"}
        /\ TimerFires(t, RMaxAttemptsSeen)
        /\ \/ t.kind = "orphan"
           \/ ~Has(t.firm)
           \/ sessions[t.firm].status = "manually_disconnected")
         => sessions' = sessions
    ]_vars

\* The persisted file under the reaper: restored sessions as old as three
\* session timeouts, the handlers that make a session persistent or let
\* the sweep evict it, the sweep, and the writes of the file.
PersistNext ==
  \/ \E f \in ActiveFirms : GetSessionRequest(f)
  \/ \E f \in ActiveFirms : QrRequest(f, RMaxAttemptsSeen)
  \/ \E f \in ActiveFirms : OnReady(f)
  \/ \E f \in ActiveFirms, reason \in DisconnectReasons : OnDisconnected(f, reason, RMaxPending)
  \/ \E t \in timers : TimerFires(t, RMaxAttemptsSeen)
  \/ Tick(MaxTicks)
  \/ Cleanup
  \/ SaveInterval
  \/ \E w \in writes : WriteCompletes(w)

PersistSpec == ReaperInit /\ [][PersistNext]_vars

C34_OneLoopPerFirm ==
  \A f \in Firms : Cardinality(runs[f]) <= 1

\* C35: a session's isReady flag is true exactly when its status is ready.
C35_ReadyFlagMatchesStatus ==
  \A f \in DOMAIN sessions : sessions[f].isReady <=> sessions[f].status = "ready"

\* an event of a client of firm f is handled in this step
ClientEvent(f) ==
  \/ OnQr(f) \/ OnReady(f) \/ OnAuthenticated(f) \/ OnAuthFailure(f)
  \/ \E reason \in DisconnectReasons : OnDisconnected(f, reason, LMaxPending)

\* C36: an event handled while the session holds no client, which only a
\* client the session has released can have emitted, changes no field of
\* the session and schedules no timer.
C36_ReleasedClientIsMute ==
  [][\A f \in ActiveFirms :
       (Has(f) /\ sessions[f].client = NoClient /\ ClientEvent(f))
         => sessions'[f] = sessions[f] /\ timers' = timers
    ]_vars

\* C37: whenever isProcessingQueue of a session is true, it is false again
\* at some later point.
C37_DrainEventuallyReleases ==
  \A f \in ActiveFirms :
    (Has(f) /\ sessions[f].isProcessingQueue) ~> (Has(f) /\ ~sessions[f].isProcessingQueue)

\* bounds of ClearSpec
CMaxMsgs == 2          \* messages enqueued in one behaviour
CMaxBulk == 2          \* messages of one request
CMaxAttemptsSeen == 2  \* cap on reconnectAttempts

\* The queue and the requests that empty it, with the history of the
\* emptyings: pairing, the enqueue requests, the drains with every outcome
\* of a send, and clear-queue, reset and disconnect.
ClearNext ==
  \/ \E f \in ActiveFirms : QrRequest(f, CMaxAttemptsSeen)
  \/ \E f \in ActiveFirms : OnReady(f)
  \/ \E f \in ActiveFirms, n \in 1..CMaxBulk : SendMessagesRequest(f, n, CMaxMsgs)
  \/ \E f \in ActiveFirms : ClearQueueRequest(f) /\ Recorded(f)
  \/ \E f \in ActiveFirms, throws \in BOOLEAN : ResetRequest(f, throws) /\ Recorded(f)
  \/ \E f \in ActiveFirms, throws \in BOOLEAN : DisconnectRequest(f, throws) /\ Recorded(f)
  \/ \E t \in timers : TimerFires(t, CMaxAttemptsSeen)
  \/ DrainStep
  \/ QueueInterval

ClearSpec == Init /\ [][ClearNext]_vars

\* C38: the queue of a session holds no message that was enqueued before
\* the queue was last emptied by clear-queue, reset or disconnect.
C38_EmptiedStaysEmptied ==
  \A f \in DOMAIN sessions :
    \A m \in Range(sessions[f].messageQueue) : m >= emptiedAt[f]

\* C39: once no write of the file is in progress, the file holds the newest
\* snapshot, which is the snapshot of the registry as it is (every handler
\* that changes what a snapshot holds starts a save).
C39_StoreConverges ==
  writes = {} => store = Snapshot(sessions)

====
